---- MODULE Spec2Model ----
(***************************************************************************)
(* Model of the NHL odds predictor (src/nhl_predictor): the odds          *)
(* converter (odds.py), the win-probability model (model.py) and the      *)
(* prediction orchestrator (main.py) with the API client it calls         *)
(* (nhl_api.py).                                                           *)
(*                                                                         *)
(* Specifications.  Spec is one call of run_predictions.  The others take  *)
(* one function each over inputs drawn in their initial states: SpecOdds   *)
(* (probability_to_american_odds), SpecModel (predict_home_win_prob),      *)
(* SpecGame (predict_game), SpecStandings (get_standings), SpecCache (the  *)
(* club-schedule cache over a sequence of calls), SpecH2H (the count of    *)
(* get_h2h_win_pct), SpecGoalie (get_goalie_sv_for_game) and SpecInjury    *)
(* (the injury loop of run_predictions).                                   *)
(*                                                                         *)
(* Numbers.  The code computes in binary floating point; the model        *)
(* computes the same expressions exactly, in fixed point:                 *)
(*   - a model input x (win fraction, save percentage, shots per game,    *)
(*     goal differential, injury severity) is the integer 1000 * x;       *)
(*   - a probability inside predict_home_win_prob is an integer number of *)
(*     1/ProbUnit, ProbUnit = 15 * 100 * 1000, which makes every term of  *)
(*     the sum (weight/100 * input/1000, and the shots term's /15) an     *)
(*     integer;                                                            *)
(*   - the argument of probability_to_american_odds is a fraction pn/pd.  *)
(* Python's round() rounds the float it is given half-to-even; where the  *)
(* exact quotient is a half, the float quotient may lie on either side of *)
(* it, so the model takes either direction, fixed once per behaviour      *)
(* (variable halfUp): the same input always converts to the same odds.    *)
(***************************************************************************)
EXTENDS Integers, Sequences, FiniteSets, TLC

VARIABLES
    halfUp,      \* direction a quotient that is exactly a half rounds to
    pn,          \* odds converter: numerator of the probability passed in
    odds,        \* odds converter: the value returned (0 before the first call)
    calls,       \* odds converter: 1 once a conversion has been made, 0 before
    feat,        \* win-probability model: the arguments of the last call
    prob,        \* win-probability model: the value the last call returned
    edits,       \* win-probability model: arguments changed since the first call
    pc,          \* run_predictions: where the call is ("idle" before, "done" / "failed" after)
    arg,         \* run_predictions: the for_date argument (None, or a day)
    date_str,    \* run_predictions: date_str
    gameWeek,    \* the schedule source's gameWeek list for the request
    games,       \* run_predictions: games, the list get_schedule returned
    standings,   \* run_predictions: standings
    team_stats,  \* run_predictions: team_stats
    results,     \* run_predictions: results
    payload,     \* run_predictions: the payload returned
    error,       \* run_predictions: the fetch whose failure propagated out of the call
    cache,       \* nhl_api._club_schedule_cache
    gin,         \* predict_game: the arguments of the call
    quote,       \* predict_game: the tuple returned (prob, home_odds, away_odds)
    quoted,      \* predict_game: 1 once the call has been made, 0 before
    rows,        \* get_standings: the rows of the standings source's answer
    standOut,    \* get_standings: the dict returned, or the failure raised
    standCalled, \* get_standings: 1 once the call has been made, 0 before
    fetches,     \* club-schedule source: requests made so far, by team code
    ret,         \* get_club_schedule_season / get_h2h_win_pct: how the last call ended
    ncalls,      \* get_club_schedule_season / get_h2h_win_pct: calls made so far
    h2hIn,       \* head-to-head count: the schedule and the two team codes
    h2hOut,      \* head-to-head count: the tuple returned (fraction, meetings)
    h2hCalled,   \* head-to-head count: 1 once it has been made, 0 before
    goalieIn,    \* get_goalie_sv_for_game: the arguments of the call
    goalieEnds,  \* get_goalie_sv_for_game: how each fetch the call made ended
    goalieOut,   \* get_goalie_sv_for_game: the pair returned, or the failure raised
    goalieCalled, \* get_goalie_sv_for_game: 1 once the call has been made, 0 before
    injIn,       \* injury loop: the entries of the date and the game's two team codes
    injOut,      \* injury loop: (home_injury, away_injury) when the loop ends
    injCalled    \* injury loop: 1 once it has run, 0 before

oddsVars == <<pn, odds, calls>>
modelVars == <<feat, prob, edits>>
runVars == <<pc, arg, date_str, gameWeek, games, standings, team_stats, results, payload,
             error, cache>>
gameVars == <<gin, quote, quoted>>
standVars == <<rows, standOut, standCalled>>
clubVars == <<fetches, ret, ncalls>>
h2hVars == <<h2hIn, h2hOut, h2hCalled>>
goalieVars == <<goalieIn, goalieEnds, goalieOut, goalieCalled>>
injVars == <<injIn, injOut, injCalled>>
unitVars == <<gameVars, standVars, clubVars, h2hVars, goalieVars, injVars>>
vars == <<halfUp, oddsVars, modelVars, runVars, unitVars>>

None == "None"

\* ------------------------------------------------------------- bounds

\* Denominator of the probabilities handed to the odds converter: p = pn / ProbGrid.
ProbGrid == 1000

\* Arguments of predict_home_win_prob changed, one per call, after the first call.
MaxEdits == 2

\* Games the schedule source lists for the requested day.
MaxGames == 2

\* ------------------------------------------------------------ odds.py

Abs(x) == IF x < 0 THEN -x ELSE x

\* int(round(n / d)) for n >= 0, d > 0: nearest integer, a half decided by halfUp.
RoundDiv(n, d) ==
    LET q == n \div d
        r == n % d
    IN  IF 2 * r < d THEN q
        ELSE IF 2 * r > d THEN q + 1
        ELSE IF halfUp THEN q + 1 ELSE q

\* Mutant of probability_to_american_odds: the favourite branch taken only for prob > 0.5.
probability_to_american_odds_strict(n, d) ==
    LET lo == n * 1000 < d
        hi == n * 1000 > 999 * d
        cn == IF lo THEN 1 ELSE IF hi THEN 999 ELSE n
        cd == IF lo \/ hi THEN 1000 ELSE d
    IN  IF 2 * cn > cd
        THEN -RoundDiv(100 * cn, cd - cn)
        ELSE RoundDiv(100 * (cd - cn), cn)

\* Mutant of probability_to_american_odds: the favourite branch uses the underdog's ratio.
probability_to_american_odds_fav_swapped(n, d) ==
    LET lo == n * 1000 < d
        hi == n * 1000 > 999 * d
        cn == IF lo THEN 1 ELSE IF hi THEN 999 ELSE n
        cd == IF lo \/ hi THEN 1000 ELSE d
    IN  IF 2 * cn >= cd
        THEN -RoundDiv(100 * (cd - cn), cn)
        ELSE RoundDiv(100 * (cd - cn), cn)

\* Mutant of probability_to_american_odds: the underdog branch uses the favourite's ratio.
probability_to_american_odds_dog_swapped(n, d) ==
    LET lo == n * 1000 < d
        hi == n * 1000 > 999 * d
        cn == IF lo THEN 1 ELSE IF hi THEN 999 ELSE n
        cd == IF lo \/ hi THEN 1000 ELSE d
    IN  IF 2 * cn >= cd
        THEN -RoundDiv(100 * cn, cd - cn)
        ELSE RoundDiv(100 * cn, cd - cn)

\* probability_to_american_odds(prob) for prob = n / d:
\*   prob = max(0.001, min(0.999, prob))
\*   prob >= 0.5: -int(round(prob / (1 - prob) * 100)); else int(round((1 - prob) / prob * 100))
probability_to_american_odds(n, d) ==
    LET lo == n * 1000 < d
        hi == n * 1000 > 999 * d
        cn == IF lo THEN 1 ELSE IF hi THEN 999 ELSE n
        cd == IF lo \/ hi THEN 1000 ELSE d
    IN  IF 2 * cn >= cd
        THEN -RoundDiv(100 * cn, cd - cn)
        ELSE RoundDiv(100 * (cd - cn), cn)


\* ----------------------------------------------------------- model.py

\* An optional float (float | None): <<>> is None, <<v>> is the float v / 1000.
Absent == <<>>
Some(v) == <<v>>
Val(x) == x[1]

\* One probability unit: prob = n / ProbUnit.
ProbUnit == 15 * 100 * 1000

WEIGHT_CONFIG ==
    [ home_ice |-> 2, last_10 |-> 10, season_record |-> 12, goalie |-> 6,
      special_teams |-> 3, head_to_head |-> 8, shots |-> 4, goal_diff |-> 6,
      xg |-> 4, injury |-> 3 ]

\* WEIGHT_CONFIG[..] / 100.0: HOME_ICE in probability units, the weights in
\* probability units per thousandth of input (15 = ProbUnit / 100 / 1000).
HOME_ICE == WEIGHT_CONFIG.home_ice * (ProbUnit \div 100)
WEIGHT_L10 == 15 * WEIGHT_CONFIG.last_10
WEIGHT_SEASON == 15 * WEIGHT_CONFIG.season_record
WEIGHT_GOALIE == 15 * WEIGHT_CONFIG.goalie
WEIGHT_SPECIAL == 15 * WEIGHT_CONFIG.special_teams
WEIGHT_H2H == 15 * WEIGHT_CONFIG.head_to_head
WEIGHT_GOAL_DIFF == 15 * WEIGHT_CONFIG.goal_diff
WEIGHT_XG == 15 * WEIGHT_CONFIG.xg
WEIGHT_INJURY == 15 * WEIGHT_CONFIG.injury
\* The shots weight multiplies _norm(shot_diff, -1, 1), shot_diff = diff / 15.0: in
\* probability units per 1/15000 of shot_diff, that is per thousandth of a shot.
WEIGHT_SHOTS == WEIGHT_CONFIG.shots

\* Mutant of _norm: the upper limit is not applied.
_norm_no_upper(x, lo, hi) == IF x < lo THEN lo ELSE x

\* _norm(x, lo, hi) = max(lo, min(hi, x))
_norm(x, lo, hi) ==
    LET m == IF hi < x THEN hi ELSE x
    IN  IF lo > m THEN lo ELSE m

\* Mutant of GoalieTerm: a missing save percentage is zero-filled.
GoalieTermZeroFill(f) ==
    LET h == IF f.home_goalie_sv_pct = Absent THEN 0 ELSE Val(f.home_goalie_sv_pct)
        a == IF f.away_goalie_sv_pct = Absent THEN 0 ELSE Val(f.away_goalie_sv_pct)
    IN  IF f.home_goalie_sv_pct # Absent \/ f.away_goalie_sv_pct # Absent
        THEN WEIGHT_GOALIE * (h - a) * 10
        ELSE 0

\* if home_goalie_sv_pct is not None and away_goalie_sv_pct is not None:
\*     prob += WEIGHT_GOALIE * (home_goalie_sv_pct - away_goalie_sv_pct) * 10
GoalieTerm(f) ==
    IF f.home_goalie_sv_pct # Absent /\ f.away_goalie_sv_pct # Absent
    THEN WEIGHT_GOALIE * (Val(f.home_goalie_sv_pct) - Val(f.away_goalie_sv_pct)) * 10
    ELSE 0

\* Mutant of H2HTerm: the term is added whatever h2h_games is.
H2HTermUnguarded(f) == WEIGHT_H2H * (f.h2h_home_win_pct - 500) * 2

\* if h2h_games > 0: prob += WEIGHT_H2H * (h2h_home_win_pct - 0.5) * 2
H2HTerm(f) ==
    IF f.h2h_games > 0
    THEN WEIGHT_H2H * (f.h2h_home_win_pct - 500) * 2
    ELSE 0

\* shot_diff = (home - away) / 15.0 if (home or away) else 0
\* prob += WEIGHT_SHOTS * _norm(shot_diff, -1, 1)
ShotsTerm(f) ==
    LET shot_diff == IF f.home_shots_per_game # 0 \/ f.away_shots_per_game # 0
                     THEN f.home_shots_per_game - f.away_shots_per_game
                     ELSE 0
    IN  WEIGHT_SHOTS * _norm(shot_diff, -15000, 15000)

\* Mutant of InjuryTerm: the difference is taken the other way round.
InjuryTermFlipped(f) == WEIGHT_INJURY * (f.home_injury - f.away_injury)

\* injury_delta = away_injury - home_injury; prob += WEIGHT_INJURY * injury_delta
InjuryTerm(f) == WEIGHT_INJURY * (f.away_injury - f.home_injury)

\* predict_home_win_prob(...): f is the record of its arguments.
predict_home_win_prob(f) ==
    _norm( ProbUnit \div 2 + HOME_ICE
             + WEIGHT_L10 * (f.home_l10_win_pct - f.away_l10_win_pct)
             + WEIGHT_SEASON * (f.home_season_win_pct - f.away_season_win_pct)
             + GoalieTerm(f)
             + WEIGHT_SPECIAL * (f.home_special_avg - f.away_special_avg) * 5
             + H2HTerm(f)
             + WEIGHT_GOAL_DIFF * (f.home_goal_diff_pg - f.away_goal_diff_pg)
             + ShotsTerm(f)
             + WEIGHT_XG * (f.home_xg_per_game - f.away_xg_per_game)
             + InjuryTerm(f),
           ProbUnit \div 100, 99 * (ProbUnit \div 100) )

\* The defaults of predict_home_win_prob's signature and of predict_game's look-ups:
\* equal teams, no goalie values, no meetings, no injuries.
NeutralArgs ==
    [ home_l10_win_pct |-> 500, away_l10_win_pct |-> 500,
      home_season_win_pct |-> 500, away_season_win_pct |-> 500,
      home_goalie_sv_pct |-> Absent, away_goalie_sv_pct |-> Absent,
      home_special_avg |-> 500, away_special_avg |-> 500,
      h2h_home_win_pct |-> 500, h2h_games |-> 0,
      home_shots_per_game |-> 30000, away_shots_per_game |-> 30000,
      home_goal_diff_pg |-> 0, away_goal_diff_pg |-> 0,
      home_xg_per_game |-> 0, away_xg_per_game |-> 0,
      home_injury |-> 0, away_injury |-> 0 ]

\* A mid-season game: both goalies resolved, three earlier meetings.
TypicalArgs ==
    [ NeutralArgs EXCEPT !.home_goalie_sv_pct = Some(915), !.away_goalie_sv_pct = Some(900),
                         !.h2h_home_win_pct = 667, !.h2h_games = 3,
                         !.home_xg_per_game = 2850, !.away_xg_per_game = 2850 ]

\* Values tried for each argument (thousandths); 10000 and -10000 are the extreme
\* magnitudes (a 10.0 differential either way).
ArgValues(fld) ==
    CASE fld \in {"home_l10_win_pct", "away_l10_win_pct",
                  "home_season_win_pct", "away_season_win_pct"} -> {-10000, 100, 500, 900, 10000}
      [] fld \in {"home_goalie_sv_pct", "away_goalie_sv_pct"} ->
             {Absent, Some(0), Some(900), Some(915), Some(930)}
      [] fld \in {"home_special_avg", "away_special_avg"} -> {0, 500, 800}
      [] fld = "h2h_home_win_pct" -> {0, 500, 667, 1000}
      [] fld = "h2h_games" -> {0, 1, 3}
      [] fld \in {"home_shots_per_game", "away_shots_per_game"} -> {0, 22000, 30000, 60000}
      [] fld \in {"home_goal_diff_pg", "away_goal_diff_pg"} -> {-1000, 0, 1000}
      [] fld \in {"home_xg_per_game", "away_xg_per_game"} -> {0, 2850, 3325}
      [] fld \in {"home_injury", "away_injury"} -> {0, 500, 1000}

\* ------------------------------------------------ model.py: predict_game

RECURSIVE GCD(_, _)
GCD(a, b) == IF b = 0 THEN a ELSE GCD(b, a % b)

\* BOOK_MARGIN = 0.03, in hundredths
BOOK_MARGIN == 3

\* standings.get(abbrev) or {}, then .get("l10WinPct", 0.5) / .get("seasonWinPct", 0.5)
StandOf(stand, abbrev) ==
    IF abbrev \in DOMAIN stand THEN stand[abbrev]
    ELSE [l10WinPct |-> 500, seasonWinPct |-> 500]

\* team_stats.get(abbrev) or {}, then _float(.get(..), default)
TeamOf(tstats, abbrev) ==
    IF abbrev \in DOMAIN tstats THEN tstats[abbrev]
    ELSE [specialTeamsAvg |-> 500, shotsForPerGame |-> 30000, goalDiffPerGame |-> 0]

\* The arguments predict_game passes to predict_home_win_prob. LEAGUE_AVG_SHOT_PCT
\* is 0.095: xg = shots * 95 / 1000.
GameArgs(home_abbrev, away_abbrev, stand, tstats, home_sv, away_sv, h2h_pct, h2h_games, home_injury, away_injury) ==
    LET hs == StandOf(stand, home_abbrev)
        as == StandOf(stand, away_abbrev)
        ht == TeamOf(tstats, home_abbrev)
        at == TeamOf(tstats, away_abbrev)
    IN  [ home_l10_win_pct |-> hs.l10WinPct, away_l10_win_pct |-> as.l10WinPct,
          home_season_win_pct |-> hs.seasonWinPct, away_season_win_pct |-> as.seasonWinPct,
          home_goalie_sv_pct |-> home_sv, away_goalie_sv_pct |-> away_sv,
          home_special_avg |-> ht.specialTeamsAvg, away_special_avg |-> at.specialTeamsAvg,
          h2h_home_win_pct |-> h2h_pct, h2h_games |-> h2h_games,
          home_shots_per_game |-> ht.shotsForPerGame,
          away_shots_per_game |-> at.shotsForPerGame,
          home_goal_diff_pg |-> ht.goalDiffPerGame, away_goal_diff_pg |-> at.goalDiffPerGame,
          home_xg_per_game |-> (ht.shotsForPerGame * 95) \div 1000,
          away_xg_per_game |-> (at.shotsForPerGame * 95) \div 1000,
          home_injury |-> home_injury, away_injury |-> away_injury ]

\* Mutant of OddsWithVig: the fair probability is scaled by 1.0 - BOOK_MARGIN.
OddsWithVigDiscount(fp) ==
    LET n == fp * (100 - BOOK_MARGIN)
        d == ProbUnit * 100
        g == GCD(d, n)
    IN  probability_to_american_odds(n \div g, d \div g)

\* probability_to_american_odds(fair * (1.0 + BOOK_MARGIN)) for fair = fp / ProbUnit;
\* the fraction is reduced to lowest terms before it is handed over.
OddsWithVig(fp) ==
    LET n == fp * (100 + BOOK_MARGIN)
        d == ProbUnit * 100
        g == GCD(d, n)
    IN  probability_to_american_odds(n \div g, d \div g)

\* Mutant of predict_game: the odds are those of the fair probabilities, no margin.
predict_game_no_vig(home_abbrev, away_abbrev, stand, tstats, home_sv, away_sv, h2h_pct, h2h_games, home_injury, away_injury) ==
    LET p == predict_home_win_prob(
                 GameArgs(home_abbrev, away_abbrev, stand, tstats, home_sv,
                          away_sv, h2h_pct, h2h_games, home_injury, away_injury))
    IN  <<p, probability_to_american_odds(p, ProbUnit),
          probability_to_american_odds(ProbUnit - p, ProbUnit)>>

\* predict_game(...) = (prob, home_odds, away_odds)
predict_game(home_abbrev, away_abbrev, stand, tstats, home_sv, away_sv, h2h_pct, h2h_games, home_injury, away_injury) ==
    LET p == predict_home_win_prob(
                 GameArgs(home_abbrev, away_abbrev, stand, tstats, home_sv,
                          away_sv, h2h_pct, h2h_games, home_injury, away_injury))
    IN  <<p, OddsWithVig(p), OddsWithVig(ProbUnit - p)>>

\* ------------------------------------------------------------- nhl_api.py

\* An empty dict.
EmptyMap == [t \in {} |-> <<>>]

\* How one call of _get ends: a decoded body, or one of the failures of urlopen /
\* read / json.loads: an HTTP error status (urllib.error.HTTPError), a timeout
\* (socket.timeout or URLError), a connection error (URLError), a body that does
\* not decode (UnicodeDecodeError / json.JSONDecodeError).
FetchKinds == {"ok", "http_error", "timeout", "conn_error", "bad_body"}

\* except urllib.error.HTTPError: the only failure the three optional fetches catch.
CaughtLocally(kind) == kind = "http_error"

\* date.isoformat() of the days the model knows, day 1 being today.
isoformat(d) == <<"2026-02-24", "2026-02-25", "2026-02-26", "2026-02-27">>[d]

\* str.upper() on the game states and team codes of the model.
Upper(str) ==
    IF str = "live" THEN "LIVE"
    ELSE IF str = "bos" THEN "BOS"
    ELSE IF str = "final" THEN "FINAL"
    ELSE IF str = None THEN ""
    ELSE str

\* g.get(key) or "": None becomes the empty string.
OrEmpty(v) == IF v = None THEN "" ELSE v

RECURSIVE ScheduleGames(_, _, _)
\* The inner loop of get_schedule over one day's games gs (from index i on).
ScheduleGames(gs, i, day) ==
    IF i > Len(gs) THEN <<>>
    ELSE LET g == gs[i]
             rest == ScheduleGames(gs, i + 1, day)
         IN  IF Upper(g.gameState) \in {"OFF", "FINAL", "LIVE", "CRIT", "IN_PROGRESS"}
             THEN rest
             ELSE <<[id |-> g.id, date |-> day, homeAbbrev |-> g.homeAbbrev,
                     awayAbbrev |-> g.awayAbbrev]>> \o rest

RECURSIVE ScheduleWeeks(_, _, _)
ScheduleWeeks(weeks, i, target_date) ==
    IF i > Len(weeks) THEN <<>>
    ELSE (IF weeks[i].date # target_date THEN <<>>
          ELSE ScheduleGames(weeks[i].games, 1, weeks[i].date))
         \o ScheduleWeeks(weeks, i + 1, target_date)

\* get_schedule(for_date) on the decoded body's gameWeek list.
get_schedule(for_date, data) == ScheduleWeeks(data, 1, isoformat(for_date))

\* row.get("gamesPlayed") or 1 (dflt = 1), row.get("l10GamesPlayed") or 10 (dflt = 10):
\* a missing count and a count of 0 both become the default.
CountOr(v, dflt) == IF v = Absent \/ v = Some(0) THEN dflt ELSE Val(v)

\* (wins + 0.5 * otLosses) / gp if gp else 0.5, in thousandths (rounded down).
WinPct(wins, otLosses, gp) ==
    IF gp # 0 THEN (1000 * (2 * wins + otLosses)) \div (2 * gp) ELSE 500

RECURSIVE StandingsRows(_, _, _)
\* The loop of get_standings over the rows from index i on, by_abbrev being acc: a
\* row without a team code is skipped, a later row of a code replaces an earlier one.
StandingsRows(rs, i, acc) ==
    IF i > Len(rs) THEN acc
    ELSE LET row == rs[i]
             gp == CountOr(row.gamesPlayed, 1)
             l10gp == CountOr(row.l10GamesPlayed, 10)
             entry == [ gamesPlayed |-> gp,
                        seasonWinPct |-> WinPct(row.wins, row.otLosses, gp),
                        l10GamesPlayed |-> l10gp,
                        l10WinPct |-> WinPct(row.l10Wins, row.l10OtLosses, l10gp) ]
         IN  IF OrEmpty(row.teamAbbrev) = "" THEN StandingsRows(rs, i + 1, acc)
             ELSE StandingsRows(rs, i + 1,
                      [k \in DOMAIN acc \cup {row.teamAbbrev} |->
                          IF k = row.teamAbbrev THEN entry ELSE acc[k]])

\* get_standings() when the fetch ends as kind with the rows rs: no failure is caught.
get_standings(rs, kind) ==
    IF kind = "ok" THEN [value |-> StandingsRows(rs, 1, EmptyMap), raised |-> None]
    ELSE [value |-> EmptyMap, raised |-> kind]

\* current_season_id() on the model's today
current_season_id == 20252026

\* The games list of club-schedule-season/<key>/now, as the upstream serves it.
ClubScheduleData(key) ==
    IF key = "BOS"
    THEN << [gameType |-> 2, season |-> 20252026, gameState |-> "OFF",
             home |-> "BOS", away |-> "TOR", homeScore |-> Some(4), awayScore |-> Some(2)],
            [gameType |-> 2, season |-> 20252026, gameState |-> "FINAL",
             home |-> "TOR", away |-> "BOS", homeScore |-> Some(3), awayScore |-> Some(1)],
            [gameType |-> 1, season |-> 20252026, gameState |-> "OFF",
             home |-> "BOS", away |-> "TOR", homeScore |-> Some(5), awayScore |-> Some(0)],
            [gameType |-> 2, season |-> 20252026, gameState |-> "FUT",
             home |-> "BOS", away |-> "MTL", homeScore |-> Absent, awayScore |-> Absent] >>
    ELSE IF key = "TOR"
    THEN << [gameType |-> 2, season |-> 20252026, gameState |-> "OFF",
             home |-> "BOS", away |-> "TOR", homeScore |-> Some(4), awayScore |-> Some(2)],
            [gameType |-> 2, season |-> 20252026, gameState |-> "FINAL",
             home |-> "TOR", away |-> "BOS", homeScore |-> Some(3), awayScore |-> Some(1)] >>
    ELSE <<>>

\* get_club_schedule_season(team_abbrev) with the cache c and, on a miss, a fetch
\* that ends as kind: the games, the cache afterwards, and the failure that
\* propagates (None if none).
get_club_schedule_season(team_abbrev, c, kind) ==
    LET key == Upper(team_abbrev)
    IN  IF key \in DOMAIN c
        THEN [games |-> c[key], cache |-> c, raised |-> None, fetched |-> FALSE]
        ELSE IF kind = "ok"
        THEN [games |-> ClubScheduleData(key),
              cache |-> [k \in DOMAIN c \cup {key} |->
                            IF k = key THEN ClubScheduleData(key) ELSE c[k]],
              raised |-> None, fetched |-> TRUE]
        ELSE IF CaughtLocally(kind)
        THEN [games |-> <<>>,
              cache |-> [k \in DOMAIN c \cup {key} |-> IF k = key THEN <<>> ELSE c[k]],
              raised |-> None, fetched |-> TRUE]
        ELSE [games |-> <<>>, cache |-> c, raised |-> kind, fetched |-> TRUE]

RECURSIVE H2HCountVenueWins(_, _, _, _)
\* Mutant of H2HCount: a meeting counts as won when the team playing at home won it.
H2HCountVenueWins(sched, i, home_abbrev, away_abbrev) ==
    IF i > Len(sched) THEN <<0, 0>>
    ELSE LET g == sched[i]
             rest == H2HCountVenueWins(sched, i + 1, home_abbrev, away_abbrev)
             h == OrEmpty(g.home)
             a == OrEmpty(g.away)
             counted ==
                 /\ g.gameType = 2
                 /\ g.season = current_season_id
                 /\ Upper(g.gameState) \in {"OFF", "FINAL"}
                 /\ h # "" /\ a # ""
                 /\ \/ (h = home_abbrev /\ a = away_abbrev)
                    \/ (h = away_abbrev /\ a = home_abbrev)
                 /\ g.homeScore # Absent /\ g.awayScore # Absent
             won == Val(g.homeScore) > Val(g.awayScore)
         IN  IF ~counted THEN rest
             ELSE <<rest[1] + (IF won THEN 1 ELSE 0), rest[2] + 1>>

RECURSIVE H2HCount(_, _, _, _)
\* The loop of get_h2h_win_pct from game i on: <<home_wins, total>>.
H2HCount(sched, i, home_abbrev, away_abbrev) ==
    IF i > Len(sched) THEN <<0, 0>>
    ELSE LET g == sched[i]
             rest == H2HCount(sched, i + 1, home_abbrev, away_abbrev)
             h == OrEmpty(g.home)
             a == OrEmpty(g.away)
             counted ==
                 /\ g.gameType = 2
                 /\ g.season = current_season_id
                 /\ Upper(g.gameState) \in {"OFF", "FINAL"}
                 /\ h # "" /\ a # ""
                 /\ \/ (h = home_abbrev /\ a = away_abbrev)
                    \/ (h = away_abbrev /\ a = home_abbrev)
                 /\ g.homeScore # Absent /\ g.awayScore # Absent
             won == IF h = home_abbrev THEN Val(g.homeScore) > Val(g.awayScore)
                    ELSE Val(g.awayScore) > Val(g.homeScore)
         IN  IF ~counted THEN rest
             ELSE <<rest[1] + (IF won THEN 1 ELSE 0), rest[2] + 1>>

\* get_h2h_win_pct(home, away) on the season schedule it was given: the fraction in
\* thousandths (exact when total divides 1000) and the number of meetings.
get_h2h_win_pct(sched, home_abbrev, away_abbrev) ==
    LET c == H2HCount(sched, 1, home_abbrev, away_abbrev)
    IN  IF c[2] = 0 THEN <<500, 0>> ELSE <<(1000 * c[1]) \div c[2], c[2]>>

\* player/<id>/landing: featuredStats.regularSeason.subSeason.savePctg, if any.
SavePctgData(player_id) ==
    IF player_id = 31 THEN Some(915)
    ELSE IF player_id = 32 THEN Some(900)
    ELSE Absent

\* get_goalie_save_pct(player_id) with a fetch that ends as kind.
get_goalie_save_pct(player_id, kind) ==
    IF kind = "ok" THEN [value |-> SavePctgData(player_id), raised |-> None]
    ELSE IF CaughtLocally(kind) THEN [value |-> Absent, raised |-> None]
    ELSE [value |-> Absent, raised |-> kind]

\* The player search's answer for a name: records of position and playerId;
\* a playerId of 0 stands for a missing or falsy one.
SearchData(name) ==
    IF name = "Woll"
    THEN << [position |-> "C", playerId |-> 7], [position |-> "G", playerId |-> 0],
            [position |-> "G", playerId |-> 32] >>
    ELSE IF name = "Swayman"
    THEN << [position |-> "D", playerId |-> 0], [position |-> "C", playerId |-> 0],
            [position |-> "L", playerId |-> 0], [position |-> "G", playerId |-> 31] >>
    ELSE <<>>

\* search_player_id(name) with a fetch that ends as kind: a goalie with an id among
\* the first three players, else the first of the first five with an id, else None.
search_player_id(name, kind) ==
    LET players == SearchData(name)
        goalies == {i \in 1 .. Len(players) :
                       i <= 3 /\ players[i].position = "G" /\ players[i].playerId # 0}
        withId == {i \in 1 .. Len(players) : i <= 5 /\ players[i].playerId # 0}
        first(S) == CHOOSE i \in S : \A j \in S : i <= j
    IN  IF kind = "ok"
        THEN [value |-> IF goalies # {} THEN Some(players[first(goalies)].playerId)
                        ELSE IF withId # {} THEN Some(players[first(withId)].playerId)
                        ELSE Absent,
              raised |-> None]
        ELSE IF CaughtLocally(kind) THEN [value |-> Absent, raised |-> None]
        ELSE [value |-> Absent, raised |-> kind]

\* ---------------------------------------------------------------- main.py

\* load_starting_goalies(): the entries of starting_goalies.json by date.
StartingGoalies(day) ==
    IF day = isoformat(1)
    THEN << [gameId |-> Absent, homeAbbrev |-> "MTL", awayAbbrev |-> "BOS",
             homeGoalieId |-> Absent, awayGoalieId |-> Absent,
             homeGoalieName |-> None, awayGoalieName |-> "Swayman"],
            [gameId |-> Some(1), homeAbbrev |-> "BOS", awayAbbrev |-> "TOR",
             homeGoalieId |-> Some(31), awayGoalieId |-> Absent,
             homeGoalieName |-> None, awayGoalieName |-> "Woll"] >>
    ELSE IF day = isoformat(2)
    THEN << [gameId |-> Some(1), homeAbbrev |-> "BOS", awayAbbrev |-> "TOR",
             homeGoalieId |-> Some(31), awayGoalieId |-> Absent,
             homeGoalieName |-> None, awayGoalieName |-> "Woll"] >>
    ELSE <<>>

\* load_injuries(): the entries of injuries.json by date.
Injuries(day) ==
    IF day \in {isoformat(1), isoformat(2)}
    THEN << [team |-> "TOR", isTopScorer |-> FALSE], [team |-> "TOR", isTopScorer |-> TRUE],
            [team |-> "BOS", isTopScorer |-> FALSE] >>
    ELSE <<>>

\* Mutant of get_goalie_sv_for_game: a name is searched for even when the entry
\* carries an identifier.
get_goalie_sv_for_game_name_first(game_date, home_abbrev, away_abbrev, game_id, starting_goalies, k) ==
    LET by_date == IF game_date \in DOMAIN starting_goalies
                   THEN starting_goalies[game_date] ELSE <<>>
        hits == {i \in 1 .. Len(by_date) :
                    \/ by_date[i].gameId = Some(game_id)
                    \/ (by_date[i].homeAbbrev = home_abbrev
                        /\ by_date[i].awayAbbrev = away_abbrev)}
        nofetch == [home_search |-> FALSE, away_search |-> FALSE,
                    home_stat |-> FALSE, away_stat |-> FALSE]
        none == [home_sv |-> Absent, away_sv |-> Absent, raised |-> None, signal |-> None,
                 fetched |-> nofetch]
    IN  IF hits = {} THEN none
        ELSE
        LET g == by_date[CHOOSE i \in hits : \A j \in hits : i <= j]
            hsearch == OrEmpty(g.homeGoalieName) # ""
            asearch == OrEmpty(g.awayGoalieName) # ""
            hs == search_player_id(g.homeGoalieName, k.home_search)
            as == search_player_id(g.awayGoalieName, k.away_search)
            hid == IF hsearch THEN hs.value ELSE g.homeGoalieId
            aid == IF asearch THEN as.value ELSE g.awayGoalieId
            hv == get_goalie_save_pct(Val(hid), k.home_stat)
            av == get_goalie_save_pct(Val(aid), k.away_stat)
            f1 == [nofetch EXCEPT !.home_search = hsearch]
            f2 == [f1 EXCEPT !.away_search = asearch]
            f3 == [f2 EXCEPT !.home_stat = hid # Absent]
            f4 == [f3 EXCEPT !.away_stat = aid # Absent]
        IN  IF hsearch /\ hs.raised # None
            THEN [none EXCEPT !.raised = hs.raised, !.signal = "player_search",
                              !.fetched = f1]
            ELSE IF asearch /\ as.raised # None
            THEN [none EXCEPT !.raised = as.raised, !.signal = "player_search",
                              !.fetched = f2]
            ELSE IF hid # Absent /\ hv.raised # None
            THEN [none EXCEPT !.raised = hv.raised, !.signal = "goalie_stat",
                              !.fetched = f3]
            ELSE IF aid # Absent /\ av.raised # None
            THEN [none EXCEPT !.raised = av.raised, !.signal = "goalie_stat",
                              !.fetched = f4]
            ELSE [home_sv |-> IF hid # Absent THEN hv.value ELSE Absent,
                  away_sv |-> IF aid # Absent THEN av.value ELSE Absent,
                  raised |-> None, signal |-> None, fetched |-> f4]

\* get_goalie_sv_for_game(...): the first entry of the date matching the game id or
\* the team pair; starting_goalies maps a date to its entries; k gives how each of
\* the four possible fetches would end (home search, away search, home stat, away
\* stat, the order the code makes them in). fetched tells which of the four the
\* call made.
get_goalie_sv_for_game(game_date, home_abbrev, away_abbrev, game_id, starting_goalies, k) ==
    LET by_date == IF game_date \in DOMAIN starting_goalies
                   THEN starting_goalies[game_date] ELSE <<>>
        hits == {i \in 1 .. Len(by_date) :
                    \/ by_date[i].gameId = Some(game_id)
                    \/ (by_date[i].homeAbbrev = home_abbrev
                        /\ by_date[i].awayAbbrev = away_abbrev)}
        nofetch == [home_search |-> FALSE, away_search |-> FALSE,
                    home_stat |-> FALSE, away_stat |-> FALSE]
        none == [home_sv |-> Absent, away_sv |-> Absent, raised |-> None, signal |-> None,
                 fetched |-> nofetch]
    IN  IF hits = {} THEN none
        ELSE
        LET g == by_date[CHOOSE i \in hits : \A j \in hits : i <= j]
            hsearch == g.homeGoalieId = Absent /\ OrEmpty(g.homeGoalieName) # ""
            asearch == g.awayGoalieId = Absent /\ OrEmpty(g.awayGoalieName) # ""
            hs == search_player_id(g.homeGoalieName, k.home_search)
            as == search_player_id(g.awayGoalieName, k.away_search)
            hid == IF hsearch THEN hs.value ELSE g.homeGoalieId
            aid == IF asearch THEN as.value ELSE g.awayGoalieId
            hv == get_goalie_save_pct(Val(hid), k.home_stat)
            av == get_goalie_save_pct(Val(aid), k.away_stat)
            f1 == [nofetch EXCEPT !.home_search = hsearch]
            f2 == [f1 EXCEPT !.away_search = asearch]
            f3 == [f2 EXCEPT !.home_stat = hid # Absent]
            f4 == [f3 EXCEPT !.away_stat = aid # Absent]
        IN  IF hsearch /\ hs.raised # None
            THEN [none EXCEPT !.raised = hs.raised, !.signal = "player_search",
                              !.fetched = f1]
            ELSE IF asearch /\ as.raised # None
            THEN [none EXCEPT !.raised = as.raised, !.signal = "player_search",
                              !.fetched = f2]
            ELSE IF hid # Absent /\ hv.raised # None
            THEN [none EXCEPT !.raised = hv.raised, !.signal = "goalie_stat",
                              !.fetched = f3]
            ELSE IF aid # Absent /\ av.raised # None
            THEN [none EXCEPT !.raised = av.raised, !.signal = "goalie_stat",
                              !.fetched = f4]
            ELSE [home_sv |-> IF hid # Absent THEN hv.value ELSE Absent,
                  away_sv |-> IF aid # Absent THEN av.value ELSE Absent,
                  raised |-> None, signal |-> None, fetched |-> f4]

RECURSIVE InjurySeverityLast(_, _, _, _)
\* Mutant of InjurySeverity: a matching entry replaces the severity found so far.
InjurySeverityLast(by_date_inj, i, teams, acc) ==
    IF i > Len(by_date_inj) THEN acc
    ELSE LET inj == by_date_inj[i]
             sev == IF inj.isTopScorer THEN 1000 ELSE 500
         IN  InjurySeverityLast(by_date_inj, i + 1, teams,
                 IF inj.team = teams[1] THEN <<sev, acc[2]>>
                 ELSE IF inj.team = teams[2] THEN <<acc[1], sev>>
                 ELSE acc)

RECURSIVE InjurySeverity(_, _, _, _)
\* The injury loop of run_predictions from entry i on: <<home_injury, away_injury>>
\* starting from the pair acc.
InjurySeverity(by_date_inj, i, teams, acc) ==
    IF i > Len(by_date_inj) THEN acc
    ELSE LET inj == by_date_inj[i]
             sev == IF inj.isTopScorer THEN 1000 ELSE 500
             max(x, y) == IF x > y THEN x ELSE y
         IN  InjurySeverity(by_date_inj, i + 1, teams,
                 IF inj.team = teams[1] THEN <<max(acc[1], sev), acc[2]>>
                 ELSE IF inj.team = teams[2] THEN <<acc[1], max(acc[2], sev)>>
                 ELSE acc)

\* ------------------------------------- specification: win-probability model

NoError == [signal |-> None, kind |-> None]
NoPayload == [date |-> None, games |-> <<>>, message |-> None]

IdleRun ==
    /\ pc = "idle" /\ arg = Absent /\ date_str = None /\ gameWeek = <<>>
    /\ games = <<>> /\ standings = EmptyMap /\ team_stats = EmptyMap
    /\ results = <<>> /\ payload = NoPayload /\ error = NoError /\ cache = EmptyMap

IdleOdds == pn = 0 /\ odds = 0 /\ calls = 0
IdleModel == feat = NeutralArgs /\ prob = 0 /\ edits = 0

\* predict_game's arguments for two teams without rows and every default.
NeutralGame ==
    [ home_abbrev |-> "MTL", away_abbrev |-> "SEA", stand |-> EmptyMap, tstats |-> EmptyMap,
      home_sv |-> Absent, away_sv |-> Absent, h2h_pct |-> 500, h2h_games |-> 0,
      home_injury |-> 0, away_injury |-> 0 ]

IdleGame == gin = NeutralGame /\ quote = <<0, 0, 0>> /\ quoted = 0
IdleStandings == rows = <<>> /\ standOut = [value |-> EmptyMap, raised |-> None] /\ standCalled = 0
NoReturn == [team |-> None, games |-> <<>>, h2h |-> <<500, 0>>, raised |-> None]
IdleClub == fetches = EmptyMap /\ ret = NoReturn /\ ncalls = 0
IdleH2H ==
    /\ h2hIn = [sched |-> <<>>, home_abbrev |-> "", away_abbrev |-> ""]
    /\ h2hOut = <<500, 0>>
    /\ h2hCalled = 0
AllOk == [home_search |-> "ok", away_search |-> "ok", home_stat |-> "ok", away_stat |-> "ok"]
NoGoalies ==
    [home_sv |-> Absent, away_sv |-> Absent, raised |-> None, signal |-> None,
     fetched |-> [home_search |-> FALSE, away_search |-> FALSE,
                  home_stat |-> FALSE, away_stat |-> FALSE]]
IdleGoalie ==
    /\ goalieIn = [by_date |-> <<>>, home_abbrev |-> "", away_abbrev |-> "", game_id |-> 0]
    /\ goalieEnds = AllOk
    /\ goalieOut = NoGoalies
    /\ goalieCalled = 0
IdleInjury ==
    /\ injIn = [by_date_inj |-> <<>>, home_abbrev |-> "", away_abbrev |-> ""]
    /\ injOut = <<0, 0>>
    /\ injCalled = 0
IdleUnits == IdleGame /\ IdleStandings /\ IdleClub /\ IdleH2H /\ IdleGoalie /\ IdleInjury

InitModel ==
    /\ halfUp = FALSE
    /\ IdleUnits
    /\ IdleOdds
    /\ IdleRun
    /\ feat \in {NeutralArgs, TypicalArgs}
    /\ prob = predict_home_win_prob(feat)
    /\ edits = 0

\* One call of predict_home_win_prob with one argument changed from the last call.
Predict ==
    /\ edits < MaxEdits
    /\ \E fld \in DOMAIN feat :
         \E v \in ArgValues(fld) \ {feat[fld]} :
            /\ feat' = [feat EXCEPT ![fld] = v]
            /\ prob' = predict_home_win_prob(feat')
    /\ edits' = edits + 1
    /\ UNCHANGED <<unitVars, halfUp, oddsVars, runVars>>

NextModel == Predict

SpecModel == InitModel /\ [][NextModel]_vars

\* C4: whatever the magnitude of the inputs, goalie values present or None, any
\* h2h_games >= 0, predict_home_win_prob returns p with 0.01 <= p <= 0.99.
C4_ProbWithinClamp ==
    /\ prob >= ProbUnit \div 100
    /\ prob <= 99 * (ProbUnit \div 100)

\* C4 witness: a last-10 differential of 10.0 was passed and the result is the upper limit.
C4_Witness ==
    /\ edits > 0
    /\ feat.home_l10_win_pct - feat.away_l10_win_pct >= 10000
    /\ prob = 99 * (ProbUnit \div 100)

\* C5: with home_goalie_sv_pct None the result is that of the call with both goalie
\* values None, whatever away_goalie_sv_pct is; and symmetrically with away None.
C5_GoalieTermOmitted ==
    LET neither == [feat EXCEPT !.home_goalie_sv_pct = Absent, !.away_goalie_sv_pct = Absent]
    IN  (feat.home_goalie_sv_pct = Absent \/ feat.away_goalie_sv_pct = Absent)
            => prob = predict_home_win_prob(neither)

\* C5 witness: a call was made with one goalie value None and the other a number.
C5_Witness ==
    /\ edits > 0
    /\ feat.home_goalie_sv_pct = Absent
    /\ feat.away_goalie_sv_pct # Absent
    /\ prob > ProbUnit \div 100 /\ prob < 99 * (ProbUnit \div 100)

\* C6: with h2h_games = 0 the result is the same for every h2h_home_win_pct; with
\* h2h_games > 0 the term (h2h_home_win_pct - 0.5) * 2 * weight is added (seen
\* wherever neither result is at a limit of the clamp).
C6_H2HTermOnlyWithMeetings ==
    LET lo == ProbUnit \div 100
        hi == 99 * (ProbUnit \div 100)
        none == predict_home_win_prob([feat EXCEPT !.h2h_games = 0])
    IN  /\ feat.h2h_games = 0 =>
            \A v \in ArgValues("h2h_home_win_pct") :
                predict_home_win_prob([feat EXCEPT !.h2h_home_win_pct = v]) = prob
        /\ (feat.h2h_games > 0 /\ lo < prob /\ prob < hi /\ lo < none /\ none < hi) =>
            prob - none = (feat.h2h_home_win_pct - 500) * 2 * WEIGHT_CONFIG.head_to_head
                              * (ProbUnit \div (100 * 1000))

\* C6 witness: a call with h2h_games = 0 and a head-to-head fraction other than 0.5.
C6_Witness ==
    /\ edits > 0
    /\ feat.h2h_games = 0
    /\ feat.h2h_home_win_pct # 500
    /\ prob > ProbUnit \div 100 /\ prob < 99 * (ProbUnit \div 100)

HomeSideInputs ==
    { "home_l10_win_pct", "home_season_win_pct", "home_special_avg", "home_goal_diff_pg",
      "home_shots_per_game", "home_xg_per_game", "away_injury" }
AwaySideInputs ==
    { "away_l10_win_pct", "away_season_win_pct", "away_special_avg", "away_goal_diff_pg",
      "away_shots_per_game", "away_xg_per_game", "home_injury" }

\* g is f with the input fld increased and every other input as in f. The goalie
\* inputs count when both are present, h2h_home_win_pct when h2h_games > 0.
Increased(f, g, fld) ==
    /\ \A o \in DOMAIN f \ {fld} : g[o] = f[o]
    /\ IF fld \in {"home_goalie_sv_pct", "away_goalie_sv_pct"}
       THEN /\ f.home_goalie_sv_pct # Absent /\ f.away_goalie_sv_pct # Absent
            /\ g[fld] # Absent
            /\ Val(g[fld]) > Val(f[fld])
       ELSE /\ fld = "h2h_home_win_pct" => f.h2h_games > 0
            /\ g[fld] > f[fld]

\* C7: increasing a home-side strength input (or the away injury severity) never
\* decreases the result, increasing an away-side one (or the home injury severity)
\* never increases it; and last-10 fractions 0.9 (home) against 0.1 (away), all
\* else neutral, give strictly more than the all-neutral call.
C7_Monotone ==
    [][ /\ \A fld \in HomeSideInputs \cup {"home_goalie_sv_pct", "h2h_home_win_pct"} :
              Increased(feat, feat', fld) => prob' >= prob
        /\ \A fld \in AwaySideInputs \cup {"away_goalie_sv_pct"} :
              Increased(feat, feat', fld) => prob' <= prob
        /\ feat' = [NeutralArgs EXCEPT !.home_l10_win_pct = 900, !.away_l10_win_pct = 100]
              => prob' > predict_home_win_prob(NeutralArgs) ]_vars

\* C7 witness: scenario B, home last-10 0.9 against away 0.1, was evaluated.
C7_Witness ==
    /\ edits = 2
    /\ feat = [NeutralArgs EXCEPT !.home_l10_win_pct = 900, !.away_l10_win_pct = 100]
    /\ prob > ProbUnit \div 2 + HOME_ICE

\* ------------------------------------------- specification: run_predictions

\* Games the schedule source may list for a day: upcoming ones, a finished one, a
\* live one (state in lower case), one without a state, one without an away code.
RawGames ==
    { [id |-> 1, gameState |-> "FUT", homeAbbrev |-> "BOS", awayAbbrev |-> "TOR"],
      [id |-> 2, gameState |-> "PRE", homeAbbrev |-> "MTL", awayAbbrev |-> "BOS"],
      [id |-> 3, gameState |-> "OFF", homeAbbrev |-> "TOR", awayAbbrev |-> "MTL"],
      [id |-> 4, gameState |-> "live", homeAbbrev |-> "BOS", awayAbbrev |-> "MTL"],
      [id |-> 5, gameState |-> None, homeAbbrev |-> "TOR", awayAbbrev |-> None] }

DaySchedules == UNION { [1 .. n -> RawGames] : n \in 0 .. MaxGames }

\* The game the schedule source lists for the day after the requested one.
NextDayGames ==
    << [id |-> 9, gameState |-> "FUT", homeAbbrev |-> "TOR", awayAbbrev |-> "BOS"] >>

\* get_standings(): the snapshot of the run, keyed by team code (MTL has no row).
StandingsNow ==
    [t \in {"BOS", "TOR"} |->
        IF t = "BOS" THEN [l10WinPct |-> 700, seasonWinPct |-> 600]
        ELSE [l10WinPct |-> 500, seasonWinPct |-> 550]]

\* get_team_stats_season(): the snapshot of the run, keyed by team code.
TeamStatsNow ==
    [t \in {"BOS", "TOR"} |->
        IF t = "BOS"
        THEN [specialTeamsAvg |-> 520, shotsForPerGame |-> 35000, goalDiffPerGame |-> 500]
        ELSE [specialTeamsAvg |-> 500, shotsForPerGame |-> 30000, goalDiffPerGame |-> -250]]

Init ==
    /\ halfUp \in BOOLEAN
    /\ IdleUnits
    /\ IdleOdds
    /\ IdleModel
    /\ IdleRun

\* Mutant of NoGamesPayload: the payload carries no message.
NoGamesPayloadNoMessage(d) == [date |-> d, games |-> <<>>, message |-> None]

\* return {"date": date_str, "games": [], "message": "No upcoming games for this date."}
NoGamesPayload(d) ==
    [date |-> d, games |-> <<>>, message |-> "No upcoming games for this date."]

\* Mutant of PredictionResult: the team codes are swapped.
PredictionResultSwapped(g, d, pg) ==
    [ gameId |-> g.id, date |-> d, homeTeam |-> OrEmpty(g.awayAbbrev),
      awayTeam |-> OrEmpty(g.homeAbbrev), homeWinProb |-> RoundDiv(pg[1], ProbUnit \div 1000),
      homeAmericanOdds |-> pg[2], awayAmericanOdds |-> pg[3] ]

\* The dict run_predictions appends for game g; homeWinProb is round(prob, 3), in
\* thousandths.
PredictionResult(g, d, pg) ==
    [ gameId |-> g.id, date |-> d, homeTeam |-> OrEmpty(g.homeAbbrev),
      awayTeam |-> OrEmpty(g.awayAbbrev), homeWinProb |-> RoundDiv(pg[1], ProbUnit \div 1000),
      homeAmericanOdds |-> pg[2], awayAmericanOdds |-> pg[3] ]

\* run_predictions up to its first return: for_date defaults to tomorrow,
\* get_schedule fetches (a failure propagates) and filters, and an empty list is
\* returned at once as the no-games payload.
GetSchedule ==
    /\ pc = "idle"
    /\ \E a \in {Absent, Some(1), Some(2)}, kind \in FetchKinds, gs \in DaySchedules :
         LET for_date == IF a = Absent THEN 1 + 1 ELSE Val(a)
             data == << [date |-> isoformat(for_date), games |-> gs],
                        [date |-> isoformat(for_date + 1), games |-> NextDayGames] >>
             got == get_schedule(for_date, data)
         IN  /\ arg' = a
             /\ date_str' = isoformat(for_date)
             /\ IF kind # "ok"
                THEN /\ pc' = "failed"
                     /\ error' = [signal |-> "schedule", kind |-> kind]
                     /\ UNCHANGED <<gameWeek, games, payload>>
                ELSE /\ gameWeek' = data
                     /\ games' = got
                     /\ pc' = IF got = <<>> THEN "done" ELSE "snapshots"
                     /\ payload' = IF got = <<>> THEN NoGamesPayload(isoformat(for_date))
                                   ELSE payload
                     /\ UNCHANGED error
    /\ UNCHANGED <<unitVars, halfUp, oddsVars, modelVars, standings, team_stats, results, cache>>

\* standings = get_standings(); team_stats = get_team_stats_season(): a failed fetch
\* of either propagates.
FetchSnapshots ==
    /\ pc = "snapshots"
    /\ \E ks \in FetchKinds, kt \in FetchKinds :
         IF ks # "ok"
         THEN /\ pc' = "failed"
              /\ error' = [signal |-> "standings", kind |-> ks]
              /\ UNCHANGED <<standings, team_stats>>
         ELSE IF kt # "ok"
         THEN /\ pc' = "failed"
              /\ error' = [signal |-> "team_stats", kind |-> kt]
              /\ UNCHANGED <<standings, team_stats>>
         ELSE /\ pc' = "games"
              /\ standings' = StandingsNow
              /\ team_stats' = TeamStatsNow
              /\ UNCHANGED error
    /\ UNCHANGED <<unitVars, halfUp, oddsVars, modelVars, arg, date_str, gameWeek, games, results,
                   payload, cache>>

\* The ways a fetch can end if it is made; a fetch that is not made ends in none.
Outcomes(made) == IF made THEN FetchKinds ELSE {"ok"}

\* One iteration of the loop over games: injuries, goalies, head-to-head,
\* predict_game, results.append. k says how each fetch the iteration makes ends.
ProcessGame ==
    /\ pc = "games"
    /\ Len(results) < Len(games)
    /\ LET g == games[Len(results) + 1]
           home_abbrev == OrEmpty(g.homeAbbrev)
           away_abbrev == OrEmpty(g.awayAbbrev)
           inj == InjurySeverity(Injuries(date_str), 1, <<home_abbrev, away_abbrev>>,
                                 <<0, 0>>)
           K(k1, k2, k3, k4) == [home_search |-> k1, away_search |-> k2,
                                 home_stat |-> k3, away_stat |-> k4]
           G(k) == get_goalie_sv_for_game(date_str, home_abbrev, away_abbrev, g.id,
                                          [d \in {date_str} |-> StartingGoalies(d)], k)
       IN  \E k1 \in Outcomes(G(K("ok", "ok", "ok", "ok")).fetched.home_search) :
           \E k2 \in Outcomes(G(K(k1, "ok", "ok", "ok")).fetched.away_search) :
           \E k3 \in Outcomes(G(K(k1, k2, "ok", "ok")).fetched.home_stat) :
           \E k4 \in Outcomes(G(K(k1, k2, k3, "ok")).fetched.away_stat) :
           \E k5 \in Outcomes(/\ G(K(k1, k2, k3, k4)).raised = None
                              /\ Upper(home_abbrev) \notin DOMAIN cache) :
             LET sv == G(K(k1, k2, k3, k4))
                 cs == get_club_schedule_season(home_abbrev, cache, k5)
                 h2h == get_h2h_win_pct(cs.games, home_abbrev, away_abbrev)
                 pg == predict_game(home_abbrev, away_abbrev, standings, team_stats,
                                    sv.home_sv, sv.away_sv, h2h[1], h2h[2], inj[1], inj[2])
             IN  IF sv.raised # None
                 THEN /\ pc' = "failed"
                      /\ error' = [signal |-> sv.signal, kind |-> sv.raised]
                      /\ UNCHANGED <<results, cache>>
                 ELSE IF cs.raised # None
                 THEN /\ pc' = "failed"
                      /\ error' = [signal |-> "club_schedule", kind |-> cs.raised]
                      /\ UNCHANGED <<results, cache>>
                 ELSE /\ results' = Append(results, PredictionResult(g, date_str, pg))
                      /\ cache' = cs.cache
                      /\ UNCHANGED <<pc, error>>
    /\ UNCHANGED <<unitVars, halfUp, oddsVars, modelVars, arg, date_str, gameWeek, games, standings,
                   team_stats, payload>>

\* return {"date": date_str, "games": results}
Return ==
    /\ pc = "games"
    /\ Len(results) = Len(games)
    /\ payload' = [date |-> date_str, games |-> results, message |-> None]
    /\ pc' = "done"
    /\ UNCHANGED <<unitVars, halfUp, oddsVars, modelVars, arg, date_str, gameWeek, games, standings,
                   team_stats, results, error, cache>>

Next == GetSchedule \/ FetchSnapshots \/ ProcessGame \/ Return

Spec == Init /\ [][Next]_vars

\* The fetches the spec calls optional signals.
OptionalSignals == {"goalie_stat", "player_search", "club_schedule"}

\* C1: no failure of an optional-signal fetch (goalie stat, player search, club
\* schedule), of whatever kind, aborts the run, and a run over a non-empty schedule
\* that is past its snapshots ends with one result per game.
C1_OptionalFailureNeverAborts ==
    /\ error.signal \notin OptionalSignals
    /\ (pc = "done" /\ games # <<>>) => Len(payload.games) = Len(games)

\* C2: when get_schedule returns no games for the requested date, run_predictions
\* has returned, without error, the payload of that very date with an empty games
\* list and a message.
C2_NoGamesPayload ==
    (pc # "idle" /\ error.signal # "schedule" /\ games = <<>>) =>
        /\ pc = "done"
        /\ error = NoError
        /\ payload.games = <<>>
        /\ payload.message # None
        /\ arg # Absent => payload.date = isoformat(Val(arg))
        /\ payload.date = gameWeek[1].date

\* C2 witness: the requested day lists only a finished game, the next day has an
\* upcoming one, and the run returned.
C2_Witness ==
    /\ pc = "done"
    /\ arg = Some(1)
    /\ games = <<>>
    /\ Len(gameWeek[1].games) > 0
    /\ Len(gameWeek[2].games) > 0
    /\ payload.date = "2026-02-24"

\* The positions, in the upstream list of the requested day, of the games that are
\* neither started nor finished.
UpcomingAt(day) ==
    {i \in 1 .. Len(day) :
        Upper(day[i].gameState) \notin {"OFF", "FINAL", "LIVE", "CRIT", "IN_PROGRESS"}}

\* C3: a run over n >= 1 scheduled games that returns, returns exactly n results,
\* the i-th carrying the gameId and the team codes (the empty string for a missing code) of
\* the i-th game of the schedule, which is the i-th upcoming game of the upstream
\* list of that day.
C3_OneResultPerGameInOrder ==
    (pc = "done" /\ games # <<>>) =>
        LET day == gameWeek[1].games
            up == UpcomingAt(day)
            res == payload.games
        IN  /\ Len(res) = Len(games)
            /\ Len(res) = Cardinality(up)
            /\ \A i \in 1 .. Len(res) :
                 /\ res[i].gameId = games[i].id
                 /\ res[i].homeTeam = OrEmpty(games[i].homeAbbrev)
                 /\ res[i].awayTeam = OrEmpty(games[i].awayAbbrev)
                 /\ \E j \in up :
                      /\ Cardinality({x \in up : x <= j}) = i
                      /\ res[i].gameId = day[j].id
                      /\ res[i].homeTeam = OrEmpty(day[j].homeAbbrev)
                      /\ res[i].awayTeam = OrEmpty(day[j].awayAbbrev)

\* C3 witness: a run over two different games returned both.
C3_Witness ==
    /\ pc = "done"
    /\ Len(payload.games) = 2
    /\ payload.games[1].gameId # payload.games[2].gameId
    /\ payload.games[1].homeTeam # payload.games[1].awayTeam

\* ------------------------------------------- specification: odds converter

\* Probabilities tried: the grid 0, 1/ProbGrid, .. (with 0.001, 0.5 and 0.999 on it)
\* and a stretch above 1, which the
\* converter clamps (predict_game passes prob * 1.03, up to 1.0197).
OddsInputs == 0 .. (ProbGrid + ProbGrid \div 10)

InitOdds ==
    /\ halfUp \in BOOLEAN
    /\ IdleUnits
    /\ pn = 0
    /\ odds = 0
    /\ calls = 0
    /\ IdleModel
    /\ IdleRun

\* One call probability_to_american_odds(k / ProbGrid).
Convert ==
    \E k \in OddsInputs :
        /\ pn' = k
        /\ odds' = probability_to_american_odds(k, ProbGrid)
        /\ calls' = 1
        /\ UNCHANGED <<unitVars, halfUp, modelVars, runVars>>

NextOdds == Convert

SpecOdds == InitOdds /\ [][NextOdds]_vars

\* p = pn / ProbGrid lies in [0.5, 0.999]
InFavRange(k) == 2 * k >= ProbGrid /\ 1000 * k <= 999 * ProbGrid
\* p = pn / ProbGrid lies in [0.001, 0.5)
InDogRange(k) == 1000 * k >= ProbGrid /\ 2 * k < ProbGrid

C9_UnderdogPositiveAntitone ==
    [][ /\ (InDogRange(pn') => odds' \in Int /\ odds' > 0)
        /\ (calls > 0 /\ InDogRange(pn) /\ InDogRange(pn') /\ pn < pn'
               => odds >= odds') ]_vars

\* C9 witness: an underdog probability was converted.
C9_Witness == calls = 1 /\ InDogRange(pn) /\ odds > 100

\* C9 as stated: for p1 < p2 in [0.001, 0.5), odds(p1) <= odds(p2).
C9_Original ==
    [][ /\ (InDogRange(pn') => odds' \in Int /\ odds' > 0)
        /\ (calls > 0 /\ InDogRange(pn) /\ InDogRange(pn') /\ pn < pn'
               => odds <= odds') ]_vars

MaxL10 == 100

\* A standings snapshot with rows for BOS (last-10 x, season s) and TOR (0.5, t).
StandingsOf(x, s, t) ==
    [k \in {"BOS", "TOR"} |->
        IF k = "BOS" THEN [l10WinPct |-> x, seasonWinPct |-> s]
        ELSE [l10WinPct |-> 500, seasonWinPct |-> t]]

\* A team-stats snapshot with rows for BOS and TOR: special-teams average and goal
\* differential per game of each, 30 shots per game for both.
TeamStatsOf(ah, gh, aa, ga) ==
    [k \in {"BOS", "TOR"} |->
        IF k = "BOS"
        THEN [specialTeamsAvg |-> ah, shotsForPerGame |-> 30000, goalDiffPerGame |-> gh]
        ELSE [specialTeamsAvg |-> aa, shotsForPerGame |-> 30000, goalDiffPerGame |-> ga]]

\* BOS at home to TOR over a grid of snapshots, no goalie values, no injuries: the
\* season fractions, the special-teams averages and the goal differentials are
\* equal or opposite extremes, and there were no earlier meetings or four of them,
\* all lost or all won by the home team.
GridGames ==
    { [NeutralGame EXCEPT !.home_abbrev = "BOS", !.away_abbrev = "TOR",
                          !.stand = StandingsOf(10 * k, s[1], s[2]),
                          !.tstats = TeamStatsOf(a[1], gd[1], a[2], gd[2]),
                          !.h2h_pct = h[1], !.h2h_games = h[2]] :
        k \in 0 .. MaxL10,
        s \in {<<0, 1000>>, <<500, 500>>, <<1000, 0>>},
        a \in {<<0, 1000>>, <<500, 500>>, <<1000, 0>>},
        gd \in {<<-1000, 1000>>, <<0, 0>>, <<1000, -1000>>},
        h \in {<<500, 0>>, <<0, 4>>, <<1000, 4>>} }

\* Games with goalie values and injuries, with one team or both absent from the
\* snapshots, and with identical rows for both teams.
OtherGames ==
    { [NeutralGame EXCEPT !.home_abbrev = pr[1], !.away_abbrev = pr[2],
                          !.stand = st, !.tstats = ts,
                          !.home_sv = sv[1], !.away_sv = sv[2],
                          !.home_injury = inj[1], !.away_injury = inj[2]] :
        pr \in {<<"BOS", "TOR">>, <<"TOR", "BOS">>, <<"MTL", "BOS">>, <<"MTL", "SEA">>, <<"", "">>},
        st \in {EmptyMap, StandingsNow, StandingsOf(500, 600, 600)},
        ts \in {EmptyMap, TeamStatsNow, TeamStatsOf(520, 500, 520, 500)},
        sv \in {<<Absent, Absent>>, <<Some(915), Absent>>, <<Some(915), Some(900)>>},
        inj \in {<<0, 0>>, <<500, 0>>, <<0, 1000>>, <<1000, 1000>>} }

GameInputs == GridGames \cup OtherGames

InitGame ==
    /\ halfUp \in BOOLEAN
    /\ IdleOdds
    /\ IdleModel
    /\ IdleRun
    /\ IdleStandings
    /\ IdleClub
    /\ IdleH2H
    /\ IdleGoalie
    /\ IdleInjury
    /\ gin \in GameInputs
    /\ quote = <<0, 0, 0>>
    /\ quoted = 0

\* One call of predict_game with the arguments gin.
PredictGame ==
    /\ quoted = 0
    /\ quote' = predict_game(gin.home_abbrev, gin.away_abbrev, gin.stand, gin.tstats,
                             gin.home_sv, gin.away_sv, gin.h2h_pct, gin.h2h_games,
                             gin.home_injury, gin.away_injury)
    /\ quoted' = 1
    /\ UNCHANGED <<halfUp, oddsVars, modelVars, runVars, gin, standVars, clubVars, h2hVars, goalieVars, injVars>>

NextGame == PredictGame

SpecGame == InitGame /\ [][NextGame]_vars

\* Scenario A: the two teams are both absent from, or have identical rows in, the
\* standings and the team stats; no goalie values, no meetings, no injuries.
ScenarioA ==
    /\ StandOf(gin.stand, gin.home_abbrev) = StandOf(gin.stand, gin.away_abbrev)
    /\ TeamOf(gin.tstats, gin.home_abbrev) = TeamOf(gin.tstats, gin.away_abbrev)
    /\ (gin.home_abbrev \in DOMAIN gin.stand) = (gin.away_abbrev \in DOMAIN gin.stand)
    /\ (gin.home_abbrev \in DOMAIN gin.tstats) = (gin.away_abbrev \in DOMAIN gin.tstats)
    /\ gin.home_sv = Absent /\ gin.away_sv = Absent
    /\ gin.h2h_games = 0
    /\ gin.home_injury = 0 /\ gin.away_injury = 0

\* C11 (as amended): in scenario A predict_game returns the probability 0.52, home
\* odds -115 and away odds +102: the odds of 0.52 * 1.03 and of 0.48 * 1.03.
C11_ScenarioA ==
    (quoted = 1 /\ ScenarioA) => quote = <<52 * (ProbUnit \div 100), -115, 102>>

\* C11 witness: scenario A was evaluated for two teams with identical non-default rows.
C11_Witness ==
    /\ quoted = 1
    /\ ScenarioA
    /\ gin.home_abbrev # gin.away_abbrev
    /\ gin.home_abbrev \in DOMAIN gin.stand
    /\ StandOf(gin.stand, gin.home_abbrev).seasonWinPct # 500
    /\ quote[2] < 0 /\ quote[3] > 0

\* C11 as stated: in scenario A predict_game returns 0.52, home odds -108, away odds +93.
C11_Original ==
    (quoted = 1 /\ ScenarioA) => quote = <<52 * (ProbUnit \div 100), -108, 93>>

\* C17: whatever probability in [0.01, 0.99] predict_game computes, the two
\* probabilities scaled by 1 + margin sum to more than 1, the two odds it returns
\* are not both positive, and each is an integer of magnitude 100 to 99900.
C17_OddsNeverBothPositive ==
    quoted = 1 =>
        /\ quote[1] >= ProbUnit \div 100 /\ quote[1] <= 99 * (ProbUnit \div 100)
        /\ quote[1] * (100 + BOOK_MARGIN) + (ProbUnit - quote[1]) * (100 + BOOK_MARGIN)
               > ProbUnit * 100
        /\ quote[2] < 0 \/ quote[3] < 0
        /\ \A i \in {2, 3} :
             quote[i] \in Int /\ Abs(quote[i]) >= 100 /\ Abs(quote[i]) <= 99900

\* C17 witness: a call whose home probability is below 0.5 and at least 0.5 once
\* scaled, so that both quoted odds are negative.
C17_Witness ==
    /\ quoted = 1
    /\ 2 * quote[1] < ProbUnit
    /\ 2 * quote[1] * (100 + BOOK_MARGIN) >= ProbUnit * 100
    /\ quote[2] < 0 /\ quote[3] < 0

\* -------------------------------------------- specification: get_standings

\* Rows the standings source lists.
MaxRows == 2

\* Played / won / lost-in-overtime counts of a row, for the season or the last ten
\* games: the count of games missing, 0 (before a team's first game), or positive.
RowCounts ==
    { [played |-> Absent, won |-> 0, otl |-> 0], [played |-> Some(0), won |-> 0, otl |-> 0],
      [played |-> Some(4), won |-> 2, otl |-> 1], [played |-> Some(10), won |-> 7, otl |-> 2] }

\* The rows the source may serve: with or without a team code.
StandingsRowSet ==
    { [ teamAbbrev |-> t, gamesPlayed |-> c.played, wins |-> c.won, otLosses |-> c.otl,
        l10GamesPlayed |-> d.played, l10Wins |-> d.won, l10OtLosses |-> d.otl ] :
        t \in {"BOS", "TOR", None}, c \in RowCounts, d \in RowCounts }

InitStandings ==
    /\ halfUp = FALSE
    /\ IdleOdds
    /\ IdleModel
    /\ IdleRun
    /\ IdleGame
    /\ IdleClub
    /\ IdleH2H
    /\ IdleGoalie
    /\ IdleInjury
    /\ rows \in UNION { [1 .. n -> StandingsRowSet] : n \in 0 .. MaxRows }
    /\ standOut = [value |-> EmptyMap, raised |-> None]
    /\ standCalled = 0

\* One call of get_standings.
GetStandings ==
    /\ standCalled = 0
    /\ \E kind \in FetchKinds : standOut' = get_standings(rows, kind)
    /\ standCalled' = 1
    /\ UNCHANGED <<halfUp, oddsVars, modelVars, runVars, gameVars, clubVars, h2hVars, goalieVars, injVars, rows>>

NextStandings == GetStandings

SpecStandings == InitStandings /\ [][NextStandings]_vars

\* The last row of the answer that carries the team code t.
LastRowOf(t) ==
    rows[CHOOSE i \in 1 .. Len(rows) :
            /\ rows[i].teamAbbrev = t
            /\ \A j \in 1 .. Len(rows) : rows[j].teamAbbrev = t => j <= i]

\* (won + 0.5 * otl) / played when played > 0, and 0.5 when played is 0 or missing.
ClaimedWinPct(won, otl, played) ==
    IF played # Absent /\ Val(played) > 0
    THEN (1000 * (2 * won + otl)) \div (2 * Val(played))
    ELSE 500

\* C12: for every row with a team code, the season win fraction get_standings
\* returns is (wins + 0.5 * otLosses) / gamesPlayed when gamesPlayed > 0 and 0.5
\* when gamesPlayed is 0 or missing, and likewise the last-10 win fraction.
C12_WinFractions ==
    (standCalled = 1 /\ standOut.raised = None) =>
        \A t \in DOMAIN standOut.value :
            LET row == LastRowOf(t)
            IN  /\ standOut.value[t].seasonWinPct =
                       ClaimedWinPct(row.wins, row.otLosses, row.gamesPlayed)
                /\ standOut.value[t].l10WinPct =
                       ClaimedWinPct(row.l10Wins, row.l10OtLosses, row.l10GamesPlayed)

\* ------------------------------- specification: the club-schedule cache

\* Calls of get_club_schedule_season and get_h2h_win_pct made in the process.
MaxCalls == 3

\* Team codes passed by the callers, one of them in lower case.
TeamCodes == {"BOS", "bos", "TOR", "MTL"}

InitCache ==
    /\ halfUp = FALSE
    /\ IdleOdds
    /\ IdleModel
    /\ IdleGame
    /\ IdleStandings
    /\ IdleRun
    /\ IdleClub
    /\ IdleH2H
    /\ IdleGoalie
    /\ IdleInjury

\* The requests counted after a call that made one for key, or none.
Fetched(r, key) ==
    IF ~r.fetched THEN fetches
    ELSE [k \in DOMAIN fetches \cup {key} |->
             IF k = key THEN (IF k \in DOMAIN fetches THEN fetches[k] ELSE 0) + 1
             ELSE fetches[k]]

\* One call get_club_schedule_season(team); its fetch, if it makes one, ends as kind.
CallClubSchedule ==
    /\ ncalls < MaxCalls
    /\ \E team \in TeamCodes :
       \E kind \in Outcomes(Upper(team) \notin DOMAIN cache) :
         LET r == get_club_schedule_season(team, cache, kind)
         IN  /\ cache' = r.cache
             /\ fetches' = Fetched(r, Upper(team))
             /\ ret' = [NoReturn EXCEPT !.team = team, !.games = r.games,
                                        !.raised = r.raised]
    /\ ncalls' = ncalls + 1
    /\ UNCHANGED <<halfUp, oddsVars, modelVars, gameVars, standVars, h2hVars, goalieVars, injVars, pc, arg,
                   date_str,
                   gameWeek, games, standings, team_stats, results, payload, error>>

\* One call get_h2h_win_pct(home, away): the home team's schedule through the
\* cache, then the count of the meetings.
CallH2H ==
    /\ ncalls < MaxCalls
    /\ \E home \in TeamCodes, away \in {"TOR", "BOS"} :
       \E kind \in Outcomes(Upper(home) \notin DOMAIN cache) :
         LET r == get_club_schedule_season(home, cache, kind)
         IN  /\ cache' = r.cache
             /\ fetches' = Fetched(r, Upper(home))
             /\ ret' = [NoReturn EXCEPT
                           !.team = home, !.games = r.games, !.raised = r.raised,
                           !.h2h = IF r.raised = None
                                   THEN get_h2h_win_pct(r.games, home, away)
                                   ELSE <<500, 0>>]
    /\ ncalls' = ncalls + 1
    /\ UNCHANGED <<halfUp, oddsVars, modelVars, gameVars, standVars, h2hVars, goalieVars, injVars, pc, arg,
                   date_str,
                   gameWeek, games, standings, team_stats, results, payload, error>>

NextCache == CallClubSchedule \/ CallH2H

SpecCache == InitCache /\ [][NextCache]_vars

\* Append-only: an entry of the cache is never changed or removed.
CacheAppendOnly ==
    [][ \A k \in DOMAIN cache : k \in DOMAIN cache' /\ cache'[k] = cache[k] ]_vars

\* Read-through: a call for a team code that has an entry returns the entry and
\* makes no request.
CacheReadThrough ==
    [][ \A k \in DOMAIN cache :
            Upper(ret'.team) = k =>
                /\ ret'.games = cache[k]
                /\ ret'.raised = None
                /\ fetches' = fetches ]_vars

\* C13: the cache is append-only and read-through, and the club-schedule source
\* is queried at most once for every team code that has an entry.
C13_CacheAppendOnlyReadThrough ==
    [][ /\ \A k \in DOMAIN cache : k \in DOMAIN cache' /\ cache'[k] = cache[k]
        /\ \A k \in DOMAIN cache :
               Upper(ret'.team) = k =>
                   /\ ret'.games = cache[k]
                   /\ ret'.raised = None
                   /\ fetches' = fetches
        /\ \A k \in DOMAIN cache' : fetches'[k] <= 1 ]_vars

\* ------------------------------------------ specification: get_h2h_win_pct

\* Games of the season schedule the head-to-head count is made over.
MaxSched == 3

\* Games a club's season schedule may hold.
SeasonGames ==
    LET G(type, season, state, h, a, hs, as) ==
            [gameType |-> type, season |-> season, gameState |-> state,
             home |-> h, away |-> a, homeScore |-> hs, awayScore |-> as]
    IN  { G(2, 20252026, "OFF", "BOS", "TOR", Some(4), Some(2)),
          G(2, 20252026, "FINAL", "TOR", "BOS", Some(3), Some(1)),
          G(2, 20252026, "final", "TOR", "BOS", Some(1), Some(2)),
          G(1, 20252026, "OFF", "BOS", "TOR", Some(5), Some(0)),
          G(2, 20242025, "OFF", "BOS", "TOR", Some(2), Some(1)),
          G(2, 20252026, "FUT", "BOS", "TOR", Absent, Absent),
          G(2, 20252026, "LIVE", "TOR", "BOS", Some(1), Some(0)),
          G(2, 20252026, "OFF", "BOS", "MTL", Some(3), Some(2)),
          G(2, 20252026, "OFF", "BOS", "TOR", Absent, Absent),
          G(2, 20252026, "OFF", "BOS", None, Some(2), Some(1)) }

InitH2H ==
    /\ halfUp = FALSE
    /\ IdleOdds
    /\ IdleModel
    /\ IdleRun
    /\ IdleGame
    /\ IdleStandings
    /\ IdleClub
    /\ IdleGoalie
    /\ IdleInjury
    /\ \E sched \in UNION { [1 .. n -> SeasonGames] : n \in 0 .. MaxSched } :
       \E pr \in {<<"BOS", "TOR">>, <<"TOR", "BOS">>, <<"BOS", "">>, <<"MTL", "BOS">>} :
            h2hIn = [sched |-> sched, home_abbrev |-> pr[1], away_abbrev |-> pr[2]]
    /\ h2hOut = <<500, 0>>
    /\ h2hCalled = 0

\* The count get_h2h_win_pct(home, away) makes over the schedule it obtained.
CountH2H ==
    /\ h2hCalled = 0
    /\ h2hOut' = get_h2h_win_pct(h2hIn.sched, h2hIn.home_abbrev, h2hIn.away_abbrev)
    /\ h2hCalled' = 1
    /\ UNCHANGED <<halfUp, oddsVars, modelVars, runVars, gameVars, standVars, clubVars, goalieVars, injVars,
                   h2hIn>>

NextH2H == CountH2H

SpecH2H == InitH2H /\ [][NextH2H]_vars

\* The games of the schedule that are regular-season, of the current season, in a
\* terminal state and played between the two teams in either orientation.
PairMeetings ==
    {i \in 1 .. Len(h2hIn.sched) :
        LET g == h2hIn.sched[i]
        IN  /\ g.gameType = 2
            /\ g.season = current_season_id
            /\ Upper(g.gameState) \in {"OFF", "FINAL"}
            /\ \/ OrEmpty(g.home) = h2hIn.home_abbrev /\ OrEmpty(g.away) = h2hIn.away_abbrev
               \/ OrEmpty(g.home) = h2hIn.away_abbrev /\ OrEmpty(g.away) = h2hIn.home_abbrev}

\* The meetings that have both team codes and both scores.
ScoredMeetings ==
    {i \in PairMeetings :
        LET g == h2hIn.sched[i]
        IN  /\ g.home # None /\ g.away # None
            /\ g.homeScore # Absent /\ g.awayScore # Absent}

\* The meetings of M the designated home team won, at home or away.
WonByHome(M) ==
    {i \in M :
        LET g == h2hIn.sched[i]
        IN  /\ g.homeScore # Absent /\ g.awayScore # Absent
            /\ \/ g.home = h2hIn.home_abbrev /\ Val(g.homeScore) > Val(g.awayScore)
               \/ g.away = h2hIn.home_abbrev /\ Val(g.awayScore) > Val(g.homeScore)}

\* The tuple claimed for the set of meetings M: (wins / count, count), (0.5, 0) for none.
ClaimedH2H(M) ==
    IF M = {} THEN <<500, 0>>
    ELSE <<(1000 * Cardinality(WonByHome(M))) \div Cardinality(M), Cardinality(M)>>

\* C14 (as amended): get_h2h_win_pct returns (wins / count, count) over the
\* regular-season, current-season, terminal-state games between the pair that carry
\* both team codes and both scores, wins being those the designated home team won;
\* (0.5, 0) when there is none; and 0 <= wins <= count, the fraction within [0, 1].
C14_H2HCount ==
    h2hCalled = 1 =>
        /\ h2hOut = ClaimedH2H(ScoredMeetings)
        /\ Cardinality(WonByHome(ScoredMeetings)) <= Cardinality(ScoredMeetings)
        /\ h2hOut[1] >= 0 /\ h2hOut[1] <= 1000

\* C14 witness: three counted meetings in both orientations, the designated home
\* team having won some and lost some.
C14_Witness ==
    /\ h2hCalled = 1
    /\ h2hOut[2] >= 2
    /\ h2hOut[1] > 0 /\ h2hOut[1] < 1000
    /\ \E i, j \in ScoredMeetings : h2hIn.sched[i].home # h2hIn.sched[j].home

\* C14 as stated: the count is over every regular-season, current-season,
\* terminal-state game between the pair.
C14_Original ==
    h2hCalled = 1 =>
        /\ h2hOut = ClaimedH2H(PairMeetings)
        /\ Cardinality(WonByHome(PairMeetings)) <= Cardinality(PairMeetings)
        /\ h2hOut[1] >= 0 /\ h2hOut[1] <= 1000

\* ------------------------------------- specification: get_goalie_sv_for_game

\* Starting-goalie entries listed for the date of the game.
MaxEntries == 2

\* Entries of starting_goalies.json for game 1, BOS at home to TOR: matching it by
\* game id only, by team pair only, or not at all; the home goalie given by nothing,
\* a name the search knows, a name it does not know, or an identifier and a name;
\* the away goalie by an empty name, a name, or an identifier without statistics.
GoalieEntries ==
    { [gameId |-> m[1], homeAbbrev |-> m[2], awayAbbrev |-> m[3],
       homeGoalieId |-> h[1], homeGoalieName |-> h[2],
       awayGoalieId |-> a[1], awayGoalieName |-> a[2]] :
        m \in {<<Some(1), "MTL", "BOS">>, <<Absent, "BOS", "TOR">>, <<Some(2), "TOR", "BOS">>},
        h \in {<<Absent, None>>, <<Absent, "Swayman">>, <<Absent, "Smith">>,
               <<Some(31), "Swayman">>},
        a \in {<<Absent, "">>, <<Absent, "Woll">>, <<Some(40), None>>} }

InitGoalie ==
    /\ halfUp = FALSE
    /\ IdleOdds
    /\ IdleModel
    /\ IdleRun
    /\ IdleGame
    /\ IdleStandings
    /\ IdleClub
    /\ IdleH2H
    /\ IdleInjury
    /\ \E es \in UNION { [1 .. n -> GoalieEntries] : n \in 0 .. MaxEntries } :
         goalieIn = [by_date |-> es, home_abbrev |-> "BOS", away_abbrev |-> "TOR",
                     game_id |-> 1]
    /\ goalieEnds = AllOk
    /\ goalieOut = NoGoalies
    /\ goalieCalled = 0

\* One call of get_goalie_sv_for_game; each fetch it makes ends in some way.
ResolveGoalies ==
    /\ goalieCalled = 0
    /\ LET K(k1, k2, k3, k4) == [home_search |-> k1, away_search |-> k2,
                                 home_stat |-> k3, away_stat |-> k4]
           G(k) == get_goalie_sv_for_game(isoformat(1), goalieIn.home_abbrev,
                       goalieIn.away_abbrev, goalieIn.game_id,
                       [d \in {isoformat(1)} |-> goalieIn.by_date], k)
       IN  \E k1 \in Outcomes(G(K("ok", "ok", "ok", "ok")).fetched.home_search) :
           \E k2 \in Outcomes(G(K(k1, "ok", "ok", "ok")).fetched.away_search) :
           \E k3 \in Outcomes(G(K(k1, k2, "ok", "ok")).fetched.home_stat) :
           \E k4 \in Outcomes(G(K(k1, k2, k3, "ok")).fetched.away_stat) :
             /\ goalieEnds' = K(k1, k2, k3, k4)
             /\ goalieOut' = G(K(k1, k2, k3, k4))
    /\ goalieCalled' = 1
    /\ UNCHANGED <<halfUp, oddsVars, modelVars, runVars, gameVars, standVars, clubVars,
                   h2hVars, injVars, goalieIn>>

NextGoalie == ResolveGoalies

SpecGoalie == InitGoalie /\ [][NextGoalie]_vars

\* The positions of the entries that match the game by game id or by team pair.
MatchingEntries ==
    {i \in 1 .. Len(goalieIn.by_date) :
        LET e == goalieIn.by_date[i]
        IN  \/ e.gameId = Some(goalieIn.game_id)
            \/ e.homeAbbrev = goalieIn.home_abbrev /\ e.awayAbbrev = goalieIn.away_abbrev}

\* The identifier of one side: the entry's, else the one the search gave for the
\* entry's name if a search was made and answered, else none.
SideId(id, name, searched, end) ==
    IF id # Absent THEN id
    ELSE IF searched THEN search_player_id(name, end).value
    ELSE Absent

\* The save percentage of one side: none without an identifier, else what the
\* stat lookup gave.
SideSv(rid, end) ==
    IF rid = Absent THEN Absent ELSE get_goalie_save_pct(Val(rid), end).value

\* C15: the call uses the first entry matching the game by id or by team pair; for
\* each side the search is made only when the entry has no identifier but a name,
\* the stat lookup only when an identifier was obtained, and the save percentage
\* returned is None without an identifier or a statistic, else the statistic; with
\* no matching entry both sides are None and no fetch is made.
C15_GoalieResolution ==
    goalieCalled = 1 =>
        LET f == goalieOut.fetched
        IN  IF MatchingEntries = {}
            THEN /\ goalieOut.raised = None
                 /\ goalieOut.home_sv = Absent /\ goalieOut.away_sv = Absent
                 /\ ~f.home_search /\ ~f.away_search /\ ~f.home_stat /\ ~f.away_stat
            ELSE LET e == goalieIn.by_date[CHOOSE i \in MatchingEntries :
                                              \A j \in MatchingEntries : i <= j]
                     hid == SideId(e.homeGoalieId, e.homeGoalieName, f.home_search,
                                   goalieEnds.home_search)
                     aid == SideId(e.awayGoalieId, e.awayGoalieName, f.away_search,
                                   goalieEnds.away_search)
                 IN  /\ f.home_search =>
                            e.homeGoalieId = Absent /\ e.homeGoalieName \notin {None, ""}
                     /\ f.away_search =>
                            e.awayGoalieId = Absent /\ e.awayGoalieName \notin {None, ""}
                     /\ f.home_stat => hid # Absent
                     /\ f.away_stat => aid # Absent
                     /\ goalieOut.raised = None =>
                            /\ goalieOut.home_sv = SideSv(hid, goalieEnds.home_stat)
                            /\ goalieOut.away_sv = SideSv(aid, goalieEnds.away_stat)
                            /\ f.home_stat = (hid # Absent)
                            /\ f.away_stat = (aid # Absent)

\* C15 witness: two entries match, the first by game id only; its home goalie is
\* given by name, searched and found, its away goalie has an identifier without a
\* statistic: the call returns the home save percentage and None for the away side.
C15_Witness ==
    /\ goalieCalled = 1
    /\ Cardinality(MatchingEntries) = 2
    /\ goalieIn.by_date[1].homeAbbrev # goalieIn.home_abbrev
    /\ goalieIn.by_date[1].homeGoalieId = Absent
    /\ goalieIn.by_date[2].homeGoalieId # Absent
    /\ goalieOut.fetched.home_search /\ goalieOut.fetched.home_stat
    /\ ~goalieOut.fetched.away_search /\ goalieOut.fetched.away_stat
    /\ goalieOut.raised = None
    /\ goalieOut.home_sv = Some(915)
    /\ goalieOut.away_sv = Absent

\* ------------------------------ specification: the injury loop of run_predictions

\* Injury entries listed for the date of the game.
MaxInjuries == 3

\* Entries of injuries.json: a team code (possibly empty or missing) and the
\* top-scorer flag (a missing flag counts as false).
InjuryEntries ==
    { [team |-> t, isTopScorer |-> b] : t \in {"BOS", "TOR", "MTL", "", None}, b \in BOOLEAN }

\* The team codes run_predictions has for a game; a code the schedule does not
\* give is the empty string.
GameCodes == {<<"BOS", "TOR">>, <<"TOR", "BOS">>, <<"MTL", "">>, <<"", "">>}

InitInjury ==
    /\ halfUp = FALSE
    /\ IdleOdds
    /\ IdleModel
    /\ IdleRun
    /\ IdleGame
    /\ IdleStandings
    /\ IdleClub
    /\ IdleH2H
    /\ IdleGoalie
    /\ \E es \in UNION { [1 .. n -> InjuryEntries] : n \in 0 .. MaxInjuries } :
       \E c \in GameCodes :
            injIn = [by_date_inj |-> es, home_abbrev |-> c[1], away_abbrev |-> c[2]]
    /\ injOut = <<0, 0>>
    /\ injCalled = 0

\* The injury loop of one iteration of run_predictions.
ScanInjuries ==
    /\ injCalled = 0
    /\ injOut' = InjurySeverity(injIn.by_date_inj, 1,
                                <<injIn.home_abbrev, injIn.away_abbrev>>, <<0, 0>>)
    /\ injCalled' = 1
    /\ UNCHANGED <<halfUp, oddsVars, modelVars, runVars, gameVars, standVars, clubVars,
                   h2hVars, goalieVars, injIn>>

NextInjury == ScanInjuries

SpecInjury == InitInjury /\ [][NextInjury]_vars

\* The severities (1.0 for a top scorer, else 0.5) of the entries of team t.
SeveritiesOf(t) ==
    { IF injIn.by_date_inj[i].isTopScorer THEN 1000 ELSE 500 :
        i \in {j \in 1 .. Len(injIn.by_date_inj) : injIn.by_date_inj[j].team = t} }

\* The maximum of the severities of the entries of team t, 0.0 when it has none.
MaxSeverity(t) ==
    IF SeveritiesOf(t) = {} THEN 0
    ELSE CHOOSE m \in SeveritiesOf(t) : \A x \in SeveritiesOf(t) : x <= m

\* C16 (as amended): the home severity is the maximum severity over the entries of
\* the home code and, for a game whose two codes differ, the away severity is the
\* maximum over the entries of the away code; 0.0 when no entry matches; both are
\* in {0.0, 0.5, 1.0} and depend on the set of entries only, not on their order.
C16_InjuryMax ==
    injCalled = 1 =>
        /\ injOut[1] = MaxSeverity(injIn.home_abbrev)
        /\ injIn.home_abbrev # injIn.away_abbrev => injOut[2] = MaxSeverity(injIn.away_abbrev)
        /\ injOut[1] \in {0, 500, 1000} /\ injOut[2] \in {0, 500, 1000}

\* C16 witness: the away team has an ordinary entry listed after a top-scorer
\* entry, the home team an ordinary one only.
C16_Witness ==
    /\ injCalled = 1
    /\ injIn.home_abbrev = "BOS" /\ injIn.away_abbrev = "TOR"
    /\ Len(injIn.by_date_inj) = 3
    /\ injIn.by_date_inj[1] = [team |-> "TOR", isTopScorer |-> TRUE]
    /\ injIn.by_date_inj[2] = [team |-> "TOR", isTopScorer |-> FALSE]
    /\ injIn.by_date_inj[3] = [team |-> "BOS", isTopScorer |-> FALSE]
    /\ injOut = <<500, 1000>>

\* C16 as stated: for every game each side's severity is the maximum over the
\* entries of its code.
C16_Original ==
    injCalled = 1 =>
        /\ injOut[1] = MaxSeverity(injIn.home_abbrev)
        /\ injOut[2] = MaxSeverity(injIn.away_abbrev)
        /\ injOut[1] \in {0, 500, 1000} /\ injOut[2] \in {0, 500, 1000}

====
